---------------------------- MODULE Spec2Model ----------------------------
(***************************************************************************)
(* A model of the RANDOM.org JSON-RPC client (randomapi.py) and of the     *)
(* generic request composer it was derived from (localrpc.py).             *)
(*                                                                         *)
(* Representation of values                                                *)
(*   - time.time() and every duration are counted in half seconds.         *)
(*   - A JSON object as text is the sequence of its members <<key, value>> *)
(*     in the order they appear on the wire.                               *)
(*   - A Python dict / OrderedDict / list is a record [type, order, items]:*)
(*     `order' is the iteration order of the keys, `items' maps each key   *)
(*     to its value.  type = "list" is only used for the empty list [].    *)
(*   - The parameters of a request are [type, dict, tuple]: type says      *)
(*     whether params is the kwargs dict or the args tuple.                *)
(***************************************************************************)
EXTENDS Integers, Sequences, FiniteSets, TLC

VARIABLES
    now,                    \* the wall clock, time.time()
    api_key,                \* self.api_key
    attrs,                  \* names of the instance attributes that exist
    _time_of_last_request,  \* self._time_of_last_request
    _advisory_delay,        \* self._advisory_delay (seconds)
    _json_data,             \* self._json_data
    _result,                \* self._result
    _random,                \* self._random
    _signature,             \* self._signature
    lastOp,                 \* the public operation called last
    outcome,                \* how that call ended: "returned" or the error
    error,                  \* code and message carried by a remote error
    ret,                    \* the value that call returned
    wire,                   \* the request handed to http_request by that call
    httpCalls,              \* HTTP requests dispatched by that call
    received,               \* what http_request gave back to that call
    sleptFor                \* time that call spent in time.sleep

session == <<attrs, _time_of_last_request, _advisory_delay, _json_data,
             _result, _random, _signature>>

vars == <<now, api_key, attrs, _time_of_last_request, _advisory_delay,
          _json_data, _result, _random, _signature, lastOp, outcome, error,
          ret, wire, httpCalls, received, sleptFor>>

----------------------------------------------------------------------------
(* Bounds of the model *)

MaxTime == 5        \* the clock stops advancing here

----------------------------------------------------------------------------
(* Constants of randomapi.py *)

INTEGER_METHOD == "generateIntegers"
DECIMAL_METHOD == "generateDecimalFractions"
GAUSSIAN_METHOD == "generateGaussians"
STRING_METHOD == "generateStrings"
UUID_METHOD == "generateUUIDs"
BLOB_METHOD == "generateBlobs"
USAGE_METHOD == "getUsage"

SIGNED_INTEGER_METHOD == "generateSignedIntegers"
SIGNED_DECIMAL_METHOD == "generateDecimalFractions"
SIGNED_GAUSSIAN_METHOD == "generateSignedGaussians"
SIGNED_STRING_METHOD == "generateSignedStrings"
SIGNED_UUID_METHOD == "generateSignedUUIDs"
SIGNED_BLOB_METHOD == "generateSignedBlobs"
VERIFY_SIGNATURE_METHOD == "verifySignature"

ADVISORY_DELAY == "advisoryDelay"
API_KEY == "apiKey"

RESULT == "result"
RANDOM == "random"
AUTHENTICITY == "authenticity"
SIGNATURE == "signature"

FORMAT_BASE64 == "base64"

\* The list with one name too many
valid_json_methods_extra ==
    <<INTEGER_METHOD, DECIMAL_METHOD, GAUSSIAN_METHOD, STRING_METHOD,
      UUID_METHOD, BLOB_METHOD, USAGE_METHOD, SIGNED_INTEGER_METHOD,
      SIGNED_BLOB_METHOD, SIGNED_DECIMAL_METHOD, SIGNED_GAUSSIAN_METHOD,
      SIGNED_STRING_METHOD, SIGNED_UUID_METHOD, VERIFY_SIGNATURE_METHOD,
      "generateFoo">>

valid_json_methods ==
    <<INTEGER_METHOD, DECIMAL_METHOD, GAUSSIAN_METHOD, STRING_METHOD,
      UUID_METHOD, BLOB_METHOD, USAGE_METHOD, SIGNED_INTEGER_METHOD,
      SIGNED_BLOB_METHOD, SIGNED_DECIMAL_METHOD, SIGNED_GAUSSIAN_METHOD,
      SIGNED_STRING_METHOD, SIGNED_UUID_METHOD, VERIFY_SIGNATURE_METHOD>>

----------------------------------------------------------------------------
(* Python values *)

EmptyDict == [type |-> "dict", order |-> <<>>, items |-> <<>>]

EmptyList == [type |-> "list", order |-> <<>>, items |-> <<>>]

\* key in d
Has(d, key) == key \in DOMAIN d.items

\* d[key]
Get(d, key) == d.items[key]

\* x in list
InList(x, list) == \E i \in 1..Len(list) : list[i] = x

Max(a, b) == IF a >= b THEN a ELSE b

----------------------------------------------------------------------------
(* The JSON codec: json.loads with object_pairs_hook=OrderedDict, json.dumps *)

\* A plain dict in place of the OrderedDict: the keys iterate in an order
\* of their own, here the reverse of their arrival
OrderedDict_unordered(pairs) ==
    LET n == Len(pairs)
        keys == {pairs[i][1] : i \in 1..n}
        lastAt(k) == CHOOSE i \in 1..n :
                        /\ pairs[i][1] = k
                        /\ \A j \in (i + 1)..n : pairs[j][1] # k
    IN  [type |-> "dict",
         order |-> [i \in 1..n |-> pairs[n + 1 - i][1]],
         items |-> [k \in keys |-> pairs[lastAt(k)][2]]]

\* OrderedDict(pairs): keys keep the position of their first insertion, a
\* repeated key overwrites the value in place.
RECURSIVE OrderedDict(_)
OrderedDict(pairs) ==
    IF Len(pairs) = 0 THEN EmptyDict
    ELSE LET init == OrderedDict(SubSeq(pairs, 1, Len(pairs) - 1))
             key == pairs[Len(pairs)][1]
             value == pairs[Len(pairs)][2]
         IN  [type |-> "dict",
              order |-> IF Has(init, key) THEN init.order
                        ELSE Append(init.order, key),
              items |-> (key :> value) @@ init.items]

\* The hook is applied to every object of the document, innermost first:
\* result.random, then result and error, then the document itself.
DecodeResult(members) ==
    OrderedDict([i \in 1..Len(members) |->
        IF members[i][1] = RANDOM
        THEN <<members[i][1], OrderedDict(members[i][2])>>
        ELSE members[i]])

DecodeTop(key, value) ==
    IF key = RESULT THEN DecodeResult(value) ELSE OrderedDict(value)

json_to_ordered_dict(json_string) ==
    OrderedDict([i \in 1..Len(json_string) |->
        IF json_string[i][1] \in {RESULT, "error"}
        THEN <<json_string[i][1],
               DecodeTop(json_string[i][1], json_string[i][2])>>
        ELSE json_string[i]])

\* json.dumps of a dict or list value: the members in iteration order.
dumps_value(v) ==
    [i \in 1..Len(v.order) |-> <<v.order[i], v.items[v.order[i]]>>]

\* json.dumps(request_data): scalars and tuples are written as they are, the
\* OrderedDict passed as `random' is written member by member.
json_dumps(request_data) ==
    LET d == request_data.params.dict
    IN  [request_data EXCEPT !.params.dict =
            [k \in DOMAIN d |-> IF k = RANDOM THEN dumps_value(d[k])
                                ELSE d[k]]]

----------------------------------------------------------------------------
(* The request composers *)

Uuids == {"uuid-a"}       \* values uuid.uuid4() may return

NoParams == [type |-> "tuple", dict |-> <<>>, tuple |-> <<>>]

NoRequest == [method |-> "", id |-> "", jsonrpc |-> "", params |-> NoParams]

\* compose_api_call leaving the positional arguments out of the dict
compose_params_named_only(args, kwargs) ==
    IF DOMAIN kwargs # {}
    THEN [type |-> "dict", dict |-> kwargs, tuple |-> <<>>]
    ELSE [type |-> "tuple", dict |-> <<>>, tuple |-> args]

\* if kwargs: params = kwargs; if args: params["__args"] = args
\* else: params = args
compose_params(args, kwargs) ==
    IF DOMAIN kwargs # {}
    THEN [type |-> "dict",
          dict |-> IF Len(args) > 0 THEN ("__args" :> args) @@ kwargs
                   ELSE kwargs,
          tuple |-> <<>>]
    ELSE [type |-> "tuple", dict |-> <<>>, tuple |-> args]

\* compose_api_call raises when the name is not in valid_json_methods()
compose_raises(json_method_name) ==
    ~InList(json_method_name, valid_json_methods)

compose_api_call(json_method_name, args, kwargs, id) ==
    json_dumps([method |-> json_method_name,
                id |-> id,
                jsonrpc |-> "2.0",
                params |-> compose_params(args, kwargs)])

(* localrpc.py: the composer without the list of method names *)

\* create_request_dict putting the positional arguments under another key
create_request_params_other_key(args, kwargs) ==
    IF DOMAIN kwargs # {}
    THEN [type |-> "dict",
          dict |-> IF Len(args) > 0 THEN ("args" :> args) @@ kwargs
                   ELSE kwargs,
          tuple |-> <<>>]
    ELSE [type |-> "tuple", dict |-> <<>>, tuple |-> args]

\* create_request_dict builds params as compose_api_call does
create_request_params(args, kwargs) ==
    IF DOMAIN kwargs # {}
    THEN [type |-> "dict",
          dict |-> IF Len(args) > 0 THEN ("__args" :> args) @@ kwargs
                   ELSE kwargs,
          tuple |-> <<>>]
    ELSE [type |-> "tuple", dict |-> <<>>, tuple |-> args]

\* create_request_dict has no test on the method name: it never raises
create_request_raises(method) == FALSE

create_request_dict(method, args, kwargs, id) ==
    [method |-> method,
     id |-> id,
     jsonrpc |-> "2.0",
     params |-> create_request_params(args, kwargs)]

create_request_json(method, args, kwargs, id) ==
    json_dumps(create_request_dict(method, args, kwargs, id))

----------------------------------------------------------------------------
(* What http_request can give back: the body of the reply, or a failure of *)
(* urllib2 (ok = FALSE).                                                   *)

RandomA == << <<"data", <<1, 2>> >>, <<"completionTime", 7>> >>

RandomB == << <<"completionTime", 8>>, <<"data", <<3>> >> >>

Envelope(members) == << <<"jsonrpc", "2.0">> >> \o members

ResultBody(members) == Envelope(<< <<RESULT, members>> >>)

ErrorBody(code, message) ==
    Envelope(<< <<"error", << <<"code", code>>, <<"message", message>> >> >> >>)

Bodies ==
    { ResultBody(<< <<RANDOM, RandomA>>, <<ADVISORY_DELAY, 1500>> >>),
      ResultBody(<< <<RANDOM, RandomB>>, <<ADVISORY_DELAY, 0>> >>),
      ResultBody(<< <<RANDOM, RandomB>>, <<SIGNATURE, "sigA">>,
                    <<ADVISORY_DELAY, 1000>> >>),
      ResultBody(<< <<SIGNATURE, "sigB">>, <<RANDOM, RandomA>> >>),
      ResultBody(<< <<"status", "running">>, <<"requestsLeft", 9>> >>),
      ResultBody(<< <<AUTHENTICITY, TRUE>> >>),
      ResultBody(<< <<AUTHENTICITY, FALSE>>, <<ADVISORY_DELAY, 1000>> >>),
      Envelope(<< >>),
      ErrorBody(401, "bad key"),
      ErrorBody(402, "quota exceeded") \o
          << <<RESULT, << <<RANDOM, RandomA>>, <<SIGNATURE, "sigB">>,
                          <<ADVISORY_DELAY, 1500>> >> >> >> }

TransportFailure == [ok |-> FALSE, body |-> << >>]

Replies == {TransportFailure} \cup {[ok |-> TRUE, body |-> b] : b \in Bodies}

NoReply == [ok |-> FALSE, body |-> << >>]

----------------------------------------------------------------------------
(* The client: RandomJSONRPC *)

InitAttrs == {"api_key", "_time_of_last_request", "_advisory_delay"}

RefreshAttrs == {"_json_data", "_result", "_random", "_signature"}

NoError == [code |-> 0, message |-> ""]

NoRet == [kind |-> "nothing", data |-> << >>, flag |-> FALSE,
          dict |-> EmptyDict, request |-> NoRequest]

RetNone == [NoRet EXCEPT !.kind = "None"]

RetData(d) == [NoRet EXCEPT !.kind = "data", !.data = d]

RetFlag(b) == [NoRet EXCEPT !.kind = "bool", !.flag = b]

RetDict(d) == [NoRet EXCEPT !.kind = "dict", !.dict = d]

RetRequest(r) == [NoRet EXCEPT !.kind = "request", !.request = r]

\* __init__: the four attributes set by _refresh do not exist yet; the
\* values given to them here are never read before _refresh has run.
Init ==
    /\ now = 1
    /\ api_key = "key"
    /\ attrs = InitAttrs
    /\ _time_of_last_request = 0
    /\ _advisory_delay = 0
    /\ _json_data = EmptyDict
    /\ _result = EmptyDict
    /\ _random = EmptyList
    /\ _signature = ""
    /\ lastOp = "__init__"
    /\ outcome = "returned"
    /\ error = NoError
    /\ ret = NoRet
    /\ wire = NoRequest
    /\ httpCalls = 0
    /\ received = NoReply
    /\ sleptFor = 0

\* ms / 1000 on integers, without float(): whole seconds only
Seconds_truncated(ms) == (ms \div 1000) * 2

\* float(ms) / 1000.0, in half seconds
Seconds(ms) == ms \div 500

\* delay_request sleeping for the whole requested delay
delay_request_whole(requested_delay, last, t) ==
    LET elapsed == t - last
        remaining_time == requested_delay - elapsed
    IN  IF remaining_time - elapsed > 0 THEN requested_delay ELSE 0

\* delay_request: the time passed to time.sleep, 0 when it is not called
delay_request(requested_delay, last, t) ==
    LET elapsed == t - last
        remaining_time == requested_delay - elapsed
    IN  IF remaining_time - elapsed > 0 THEN remaining_time ELSE 0

\* check_errors looking for a member the server never sends
check_errors_misnamed(data) == Has(data, "errors")

\* check_errors raises when the document has an error member
check_errors(data) == Has(data, "error")

ErrorOf(data) ==
    [code |-> Get(Get(data, "error"), "code"),
     message |-> Get(Get(data, "error"), "message")]

\* _populate, attribute by attribute, starting from the refreshed values
populate_result(data) ==
    IF Has(data, RESULT) THEN Get(data, RESULT) ELSE EmptyDict

\* _populate on an _advisory_delay that _refresh has set back to 0
populate_advisory_delay_reset(res, old) ==
    IF Has(res, ADVISORY_DELAY) THEN Seconds(Get(res, ADVISORY_DELAY))
    ELSE 0

populate_advisory_delay(res, old) ==
    IF Has(res, ADVISORY_DELAY) THEN Seconds(Get(res, ADVISORY_DELAY))
    ELSE old

\* _populate on a _random that _refresh has not emptied
populate_random_stale(res) ==
    IF Has(res, RANDOM) THEN Get(res, RANDOM) ELSE _random

populate_random(res) ==
    IF Has(res, RANDOM) THEN Get(res, RANDOM) ELSE EmptyList

\* _populate on a _signature that _refresh has not emptied
populate_signature_stale(res) ==
    IF Has(res, SIGNATURE) THEN Get(res, SIGNATURE) ELSE _signature

populate_signature(res) ==
    IF Has(res, SIGNATURE) THEN Get(res, SIGNATURE) ELSE ""

\* send_request going on with an empty document when http_request failed
send_raises_swallowing(ok, data) ==
    IF ~ok THEN "none"
    ELSE IF check_errors(data) THEN "RemoteError"
    ELSE "none"

\* The exception send_request ends with, "none" when it returns self:
\* http_request raised (ok = FALSE), or check_errors did on the document
send_raises(ok, data) ==
    IF ~ok THEN "TransportError"
    ELSE IF check_errors(data) THEN "RemoteError"
    ELSE "none"

send_error(ok, data) ==
    IF send_raises(ok, data) = "RemoteError" THEN ErrorOf(data) ELSE NoError

\* _refresh wiping the advisory delay together with the last result
Stored_wiping_delay(reply, data, populated) ==
    LET res == populate_result(data)
    IN  /\ attrs' = attrs \cup RefreshAttrs
        /\ _json_data' = IF reply.ok THEN data ELSE EmptyDict
        /\ _result' = IF populated THEN res ELSE EmptyDict
        /\ _advisory_delay' =
              IF populated THEN populate_advisory_delay(res, 0) ELSE 0
        /\ _random' = IF populated THEN populate_random(res) ELSE EmptyList
        /\ _signature' = IF populated THEN populate_signature(res) ELSE ""

\* _refresh followed by the part of send_request that was reached
Stored(reply, data, populated) ==
    LET res == populate_result(data)
    IN  /\ attrs' = attrs \cup RefreshAttrs
        /\ _json_data' = IF reply.ok THEN data ELSE EmptyDict
        /\ _result' = IF populated THEN res ELSE EmptyDict
        /\ _advisory_delay' =
              IF populated THEN populate_advisory_delay(res, _advisory_delay)
              ELSE _advisory_delay
        /\ _random' = IF populated THEN populate_random(res) ELSE EmptyList
        /\ _signature' = IF populated THEN populate_signature(res) ELSE ""

\* send_request without the test of lines 211-212: a first request that
\* fails leaves the time of the last request at 0
send_request_unrecorded(request_string, reply) ==
    LET last == IF _time_of_last_request = 0 THEN now
                ELSE _time_of_last_request
        slept == IF _advisory_delay > 0
                 THEN delay_request(_advisory_delay, last, now)
                 ELSE 0
        sent == now + slept
        data == json_to_ordered_dict(reply.body)
    IN  /\ sent <= MaxTime
        /\ now' = sent
        /\ sleptFor' = slept
        /\ wire' = request_string
        /\ httpCalls' = 1
        /\ received' = reply
        /\ _time_of_last_request' =
              IF reply.ok THEN sent ELSE _time_of_last_request
        /\ Stored(reply, data, send_raises(reply.ok, data) = "none")
        /\ UNCHANGED api_key

send_request(request_string, reply) ==
    LET last == IF _time_of_last_request = 0 THEN now
                ELSE _time_of_last_request
        slept == IF _advisory_delay > 0
                 THEN delay_request(_advisory_delay, last, now)
                 ELSE 0
        sent == now + slept
        data == json_to_ordered_dict(reply.body)
    IN  /\ sent <= MaxTime
        /\ now' = sent
        /\ sleptFor' = slept
        /\ wire' = request_string
        /\ httpCalls' = 1
        /\ received' = reply
        /\ _time_of_last_request' = IF reply.ok THEN sent ELSE last
        /\ Stored(reply, data, send_raises(reply.ok, data) = "none")
        /\ UNCHANGED api_key

\* A call that ends before send_request is reached
NothingSent ==
    /\ wire' = NoRequest
    /\ httpCalls' = 0
    /\ received' = NoReply
    /\ sleptFor' = 0
    /\ UNCHANGED <<now, api_key, session>>

Ends(op, how, err, value) ==
    /\ lastOp' = op
    /\ outcome' = how
    /\ error' = err
    /\ ret' = value

\* parse: self._random['data']
parse_raises(rnd) ==
    IF rnd.type = "list" THEN "TypeError"
    ELSE IF ~Has(rnd, "data") THEN "KeyError"
    ELSE "none"

parse(rnd) == Get(rnd, "data")

\* compose_api_call(...) then self.send_request(request_string).parse()
Generate(op, method, kwargs, reply, id) ==
    IF compose_raises(method)
    THEN NothingSent /\ Ends(op, "InvalidMethod", NoError, NoRet)
    ELSE /\ send_request(compose_api_call(method, << >>, kwargs, id), reply)
         /\ IF send_raises(received'.ok, _json_data') # "none"
            THEN Ends(op, send_raises(received'.ok, _json_data'),
                      send_error(received'.ok, _json_data'), NoRet)
            ELSE IF parse_raises(_random') # "none"
            THEN Ends(op, parse_raises(_random'), NoError, NoRet)
            ELSE Ends(op, "returned", NoError, RetData(parse(_random')))

----------------------------------------------------------------------------
(* RANDOM.org API methods *)

generate_integers(n, min, max, replacement, base, reply, id) ==
    Generate("generate_integers", INTEGER_METHOD,
             [apiKey |-> api_key, n |-> n, min |-> min, max |-> max,
              replacement |-> replacement, base |-> base], reply, id)

generate_decimal_fractions(n, decimal_places, replacement, reply, id) ==
    Generate("generate_decimal_fractions", DECIMAL_METHOD,
             [apiKey |-> api_key, n |-> n, decimalPlaces |-> decimal_places,
              replacement |-> replacement], reply, id)

generate_gaussians(n, mean, standard_deviation, significant_digits, reply, id) ==
    Generate("generate_gaussians", GAUSSIAN_METHOD,
             [apiKey |-> api_key, n |-> n, mean |-> mean,
              standardDeviation |-> standard_deviation,
              significantDigits |-> significant_digits], reply, id)

generate_strings(n, length, characters, replacement, reply, id) ==
    Generate("generate_strings", STRING_METHOD,
             [apiKey |-> api_key, n |-> n, length |-> length,
              characters |-> characters, replacement |-> replacement],
             reply, id)

generate_uuids(n, reply, id) ==
    Generate("generate_uuids", UUID_METHOD,
             [apiKey |-> api_key, n |-> n], reply, id)

generate_blobs(n, size, format, reply, id) ==
    Generate("generate_blobs", BLOB_METHOD,
             [apiKey |-> api_key, n |-> n, size |-> size, format |-> format],
             reply, id)

get_usage(reply, id) ==
    IF compose_raises(USAGE_METHOD)
    THEN NothingSent /\ Ends("get_usage", "InvalidMethod", NoError, NoRet)
    ELSE /\ send_request(compose_api_call(USAGE_METHOD, << >>,
                                          [apiKey |-> api_key], id), reply)
         /\ IF send_raises(received'.ok, _json_data') # "none"
            THEN Ends("get_usage", send_raises(received'.ok, _json_data'),
                      send_error(received'.ok, _json_data'), NoRet)
            ELSE Ends("get_usage", "returned", NoError, RetDict(_result'))

(* Digitally-signed API methods *)

generate_signed_integers(n, min, max, replacement, base, reply, id) ==
    Generate("generate_signed_integers", SIGNED_INTEGER_METHOD,
             [apiKey |-> api_key, n |-> n, min |-> min, max |-> max,
              replacement |-> replacement, base |-> base], reply, id)

generate_signed_decimal_fractions(n, decimal_places, replacement, reply, id) ==
    Generate("generate_signed_decimal_fractions", SIGNED_DECIMAL_METHOD,
             [apiKey |-> api_key, n |-> n, decimalPlaces |-> decimal_places,
              replacement |-> replacement], reply, id)

generate_signed_gaussians(n, mean, standard_deviation, significant_digits, reply, id) ==
    Generate("generate_signed_gaussians", SIGNED_GAUSSIAN_METHOD,
             [apiKey |-> api_key, n |-> n, mean |-> mean,
              standardDeviation |-> standard_deviation,
              significantDigits |-> significant_digits], reply, id)

generate_signed_strings(n, length, characters, replacement, reply, id) ==
    Generate("generate_signed_strings", SIGNED_STRING_METHOD,
             [apiKey |-> api_key, n |-> n, length |-> length,
              characters |-> characters, replacement |-> replacement],
             reply, id)

generate_signed_uuids(n, reply, id) ==
    Generate("generate_signed_uuids", SIGNED_UUID_METHOD,
             [apiKey |-> api_key, n |-> n], reply, id)

generate_signed_blobs(n, size, format, reply, id) ==
    Generate("generate_signed_blobs", SIGNED_BLOB_METHOD,
             [apiKey |-> api_key, n |-> n, size |-> size, format |-> format],
             reply, id)

\* verify_signature testing the flag instead of its presence
authenticity_raises_when_false(res) ==
    ~Has(res, AUTHENTICITY) \/ ~Get(res, AUTHENTICITY)

\* verify_signature raises when the result has no authenticity member
authenticity_raises(res) == ~Has(res, AUTHENTICITY)

verify_signature(reply, id) ==
    IF "_signature" \notin attrs
    THEN NothingSent /\ Ends("verify_signature", "AttributeError", NoError,
                             NoRet)
    ELSE IF _signature = ""
    THEN NothingSent /\ Ends("verify_signature", "returned", NoError, RetNone)
    ELSE IF compose_raises(VERIFY_SIGNATURE_METHOD)
    THEN NothingSent /\ Ends("verify_signature", "InvalidMethod", NoError,
                             NoRet)
    ELSE /\ send_request(
                compose_api_call(VERIFY_SIGNATURE_METHOD, << >>,
                                 [random |-> _random,
                                  signature |-> _signature], id), reply)
         /\ IF send_raises(received'.ok, _json_data') # "none"
            THEN Ends("verify_signature",
                      send_raises(received'.ok, _json_data'),
                      send_error(received'.ok, _json_data'), NoRet)
            ELSE IF authenticity_raises(_result')
            THEN Ends("verify_signature", "VerificationUnavailable", NoError,
                      NoRet)
            ELSE Ends("verify_signature", "returned", NoError,
                      RetFlag(Get(_result', AUTHENTICITY)))

----------------------------------------------------------------------------
(* A caller using the composer of randomapi.py on its own *)

CallerNames ==
    { INTEGER_METHOD, DECIMAL_METHOD, GAUSSIAN_METHOD, STRING_METHOD,
      UUID_METHOD, BLOB_METHOD, USAGE_METHOD, "generateSignedIntegers",
      "generateSignedDecimalFractions", "generateSignedGaussians",
      "generateSignedStrings", "generateSignedUUIDs", "generateSignedBlobs",
      VERIFY_SIGNATURE_METHOD, "generateFoo", "" }

CallerArgs == { << >>, <<5, 6>> }

CallerKwargs == { << >>, [n |-> 1] }

Compose(json_method_name, args, kwargs, id) ==
    /\ NothingSent
    /\ IF compose_raises(json_method_name)
       THEN Ends("compose_api_call", "InvalidMethod", NoError, NoRet)
       ELSE Ends("compose_api_call", "returned", NoError,
                 RetRequest(compose_api_call(json_method_name, args, kwargs,
                                             id)))

\* A caller using the composer of localrpc.py
CreateRequest(method, args, kwargs, id) ==
    /\ NothingSent
    /\ IF create_request_raises(method)
       THEN Ends("create_request_json", "InvalidMethod", NoError, NoRet)
       ELSE Ends("create_request_json", "returned", NoError,
                 RetRequest(create_request_json(method, args, kwargs, id)))

----------------------------------------------------------------------------
(* Time passing between two calls *)

Tick ==
    /\ now < MaxTime
    /\ now' = now + 1
    /\ UNCHANGED <<api_key, session, lastOp, outcome, error, ret, wire,
                   httpCalls, received, sleptFor>>

----------------------------------------------------------------------------
(* The arguments callers pass; the last ones are the defaults of the       *)
(* signatures: replacement=True, base=10, format=FORMAT_BASE64.            *)

Ns == {2}

GenerateIntegers ==
    \E n \in Ns, reply \in Replies, id \in Uuids :
        generate_integers(n, 0, 10, TRUE, 10, reply, id)

GenerateDecimalFractions ==
    \E n \in Ns, reply \in Replies, id \in Uuids :
        generate_decimal_fractions(n, 2, TRUE, reply, id)

GenerateGaussians ==
    \E n \in Ns, reply \in Replies, id \in Uuids :
        generate_gaussians(n, 0, 1, 3, reply, id)

GenerateStrings ==
    \E n \in Ns, reply \in Replies, id \in Uuids :
        generate_strings(n, 4, "abc", TRUE, reply, id)

GenerateUuids ==
    \E n \in Ns, reply \in Replies, id \in Uuids :
        generate_uuids(n, reply, id)

GenerateBlobs ==
    \E n \in Ns, reply \in Replies, id \in Uuids :
        generate_blobs(n, 8, FORMAT_BASE64, reply, id)

GetUsage ==
    \E reply \in Replies, id \in Uuids : get_usage(reply, id)

GenerateSignedIntegers ==
    \E n \in Ns, reply \in Replies, id \in Uuids :
        generate_signed_integers(n, 0, 10, TRUE, 10, reply, id)

GenerateSignedDecimalFractions ==
    \E n \in Ns, reply \in Replies, id \in Uuids :
        generate_signed_decimal_fractions(n, 2, TRUE, reply, id)

GenerateSignedGaussians ==
    \E n \in Ns, reply \in Replies, id \in Uuids :
        generate_signed_gaussians(n, 0, 1, 3, reply, id)

GenerateSignedStrings ==
    \E n \in Ns, reply \in Replies, id \in Uuids :
        generate_signed_strings(n, 4, "abc", TRUE, reply, id)

GenerateSignedUuids ==
    \E n \in Ns, reply \in Replies, id \in Uuids :
        generate_signed_uuids(n, reply, id)

GenerateSignedBlobs ==
    \E n \in Ns, reply \in Replies, id \in Uuids :
        generate_signed_blobs(n, 8, FORMAT_BASE64, reply, id)

VerifySignature ==
    \E reply \in Replies, id \in Uuids : verify_signature(reply, id)

ComposeApiCall ==
    \E name \in CallerNames, args \in CallerArgs, kwargs \in CallerKwargs,
       id \in Uuids :
        Compose(name, args, kwargs, id)

CreateRequestJson ==
    \E name \in CallerNames, args \in CallerArgs, kwargs \in CallerKwargs,
       id \in Uuids :
        CreateRequest(name, args, kwargs, id)

Next ==
    \/ GenerateIntegers
    \/ GenerateDecimalFractions
    \/ GenerateGaussians
    \/ GenerateStrings
    \/ GenerateUuids
    \/ GenerateBlobs
    \/ GetUsage
    \/ GenerateSignedIntegers
    \/ GenerateSignedDecimalFractions
    \/ GenerateSignedGaussians
    \/ GenerateSignedStrings
    \/ GenerateSignedUuids
    \/ GenerateSignedBlobs
    \/ VerifySignature
    \/ Tick

Spec == Init /\ [][Next]_vars

\* The composer called on its own, next to a client in use
NextCompose ==
    \/ ComposeApiCall
    \/ GetUsage
    \/ GenerateSignedUuids

SpecCompose == Init /\ [][NextCompose]_vars

\* The two composers side by side, called with the same arguments
NextComposers ==
    \/ ComposeApiCall
    \/ CreateRequestJson

SpecComposers == Init /\ [][NextComposers]_vars

----------------------------------------------------------------------------
(* The operations called with and without their optional arguments *)

\* The signatures with format=FORMT_HEX as the default of the blob methods
Defaults_hex == [replacement |-> TRUE, base |-> 10, format |-> "hex"]

\* The defaults in the signatures: replacement=True, base=10,
\* format=FORMAT_BASE64
Defaults == [replacement |-> TRUE, base |-> 10, format |-> FORMAT_BASE64]

\* The value of an optional parameter inside the method: the caller's when
\* the caller gave one, the default of the signature otherwise
Arg(given, name) ==
    IF name \in DOMAIN given THEN given[name] ELSE Defaults[name]

\* The optional arguments a caller gives
GivenToIntegers ==
    { << >>, [replacement |-> FALSE], [base |-> 16],
      [replacement |-> FALSE, base |-> 16] }

GivenReplacement == { << >>, [replacement |-> FALSE] }

GivenFormat == { << >>, [format |-> "hex"] }

generate_integers_call(n, given, reply, id) ==
    generate_integers(n, 0, 10, Arg(given, "replacement"), Arg(given, "base"), reply, id)

generate_decimal_fractions_call(n, given, reply, id) ==
    generate_decimal_fractions(n, 2, Arg(given, "replacement"), reply, id)

generate_strings_call(n, given, reply, id) ==
    generate_strings(n, 4, "abc", Arg(given, "replacement"), reply, id)

generate_blobs_call(n, given, reply, id) ==
    generate_blobs(n, 8, Arg(given, "format"), reply, id)

generate_signed_integers_call(n, given, reply, id) ==
    generate_signed_integers(n, 0, 10, Arg(given, "replacement"), Arg(given, "base"), reply, id)

generate_signed_decimal_fractions_call(n, given, reply, id) ==
    generate_signed_decimal_fractions(n, 2, Arg(given, "replacement"), reply, id)

generate_signed_strings_call(n, given, reply, id) ==
    generate_signed_strings(n, 4, "abc", Arg(given, "replacement"), reply, id)

generate_signed_blobs_call(n, given, reply, id) ==
    generate_signed_blobs(n, 8, Arg(given, "format"), reply, id)

GenerateIntegersCall ==
    \E n \in Ns, given \in GivenToIntegers, reply \in Replies, id \in Uuids :
        generate_integers_call(n, given, reply, id)

GenerateDecimalFractionsCall ==
    \E n \in Ns, given \in GivenReplacement, reply \in Replies, id \in Uuids :
        generate_decimal_fractions_call(n, given, reply, id)

GenerateStringsCall ==
    \E n \in Ns, given \in GivenReplacement, reply \in Replies, id \in Uuids :
        generate_strings_call(n, given, reply, id)

GenerateBlobsCall ==
    \E n \in Ns, given \in GivenFormat, reply \in Replies, id \in Uuids :
        generate_blobs_call(n, given, reply, id)

GenerateSignedIntegersCall ==
    \E n \in Ns, given \in GivenToIntegers, reply \in Replies, id \in Uuids :
        generate_signed_integers_call(n, given, reply, id)

GenerateSignedDecimalFractionsCall ==
    \E n \in Ns, given \in GivenReplacement, reply \in Replies, id \in Uuids :
        generate_signed_decimal_fractions_call(n, given, reply, id)

GenerateSignedStringsCall ==
    \E n \in Ns, given \in GivenReplacement, reply \in Replies, id \in Uuids :
        generate_signed_strings_call(n, given, reply, id)

GenerateSignedBlobsCall ==
    \E n \in Ns, given \in GivenFormat, reply \in Replies, id \in Uuids :
        generate_signed_blobs_call(n, given, reply, id)

NextParams ==
    \/ GenerateIntegersCall
    \/ GenerateDecimalFractionsCall
    \/ GenerateStringsCall
    \/ GenerateBlobsCall
    \/ GenerateGaussians
    \/ GenerateUuids
    \/ GetUsage
    \/ GenerateSignedIntegersCall
    \/ GenerateSignedDecimalFractionsCall
    \/ GenerateSignedStringsCall
    \/ GenerateSignedBlobsCall
    \/ GenerateSignedGaussians
    \/ GenerateSignedUuids
    \/ VerifySignature

SpecParams == Init /\ [][NextParams]_vars

----------------------------------------------------------------------------
(* Vocabulary of the properties *)

\* A step in which only the clock may have moved: no operation was called
IdleStep ==
    UNCHANGED <<api_key, session, lastOp, outcome, error, ret, wire,
                httpCalls, received, sleptFor>>

\* A step in which an operation was called and reached http_request
SendStep == ~IdleStep /\ httpCalls' = 1

\* A step in which verify_signature was called
VerifyStep == ~IdleStep /\ lastOp' = "verify_signature"

\* Time since the last request as send_request sees it: the first request
\* takes the current time as the time of the last one
Elapsed ==
    IF _time_of_last_request = 0 THEN 0 ELSE now - _time_of_last_request

\* Members of a JSON text, read without decoding it
HasMember(members, key) == \E i \in 1..Len(members) : members[i][1] = key

Member(members, key) ==
    members[CHOOSE i \in 1..Len(members) : members[i][1] = key][2]

ResultText(body) ==
    IF HasMember(body, RESULT) THEN Member(body, RESULT) ELSE << >>

\* The reply carries an error object
ErrorReply(reply) == reply.ok /\ HasMember(reply.body, "error")

\* The request failed: transport failure or error object
FailedReply(reply) == ~reply.ok \/ ErrorReply(reply)

----------------------------------------------------------------------------
(* Throttling *)

\* C1 (as claimed): a request sent while a positive advisory delay d is
\* pending, e after the last request, sleeps exactly max(0, d - e) and so is
\* never dispatched earlier than d after the last-request time.
C1_SleepsExactlyRemaining ==
    [][(SendStep /\ _advisory_delay > 0) =>
          /\ sleptFor' = Max(0, _advisory_delay - Elapsed)
          /\ now' >= _time_of_last_request + _advisory_delay]_vars

\* C2 (as claimed): the sleep before a request is never negative and never
\* more than d - e, for every pending delay d and elapsed time e >= 0.
C2_SleepAtMostDelayMinusElapsed ==
    [][(SendStep /\ _advisory_delay > 0) =>
          /\ sleptFor' >= 0
          /\ sleptFor' <= _advisory_delay - Elapsed]_vars

\* C2 (amended): the sleep before a request is never negative and never more
\* than max(0, d - e).
C2_SleepBounded ==
    [][SendStep =>
          /\ sleptFor' >= 0
          /\ sleptFor' <= Max(0, _advisory_delay - Elapsed)
          /\ now' = now + sleptFor']_vars

\* A request that was held back: the pending delay had not run out
C2_Witness ==
    /\ httpCalls = 1
    /\ sleptFor > 0
    /\ now = _time_of_last_request
    /\ outcome = "returned"

----------------------------------------------------------------------------
(* Failed requests *)

\* A step in which a request was sent and failed
FailStep == SendStep /\ FailedReply(received')

\* C3 (as claimed): a failed request leaves the pending advisory delay and
\* the last parsed result, random data and signature as they were.
C3_FailureLeavesSessionUntouched ==
    [][FailStep =>
          UNCHANGED <<_advisory_delay, _result, _random, _signature>>]_vars

\* C3 (amended): a failed request leaves the pending advisory delay as it
\* was and wipes the last parsed result: result, random data and signature
\* are back to their empty values.
C3_FailureKeepsDelayWipesResult ==
    [][FailStep =>
          /\ _advisory_delay' = _advisory_delay
          /\ _result' = EmptyDict
          /\ _random' = EmptyList
          /\ _signature' = ""]_vars

\* A request that failed while a delay issued earlier was pending
C3_Witness ==
    /\ httpCalls = 1
    /\ outcome \in {"RemoteError", "TransportError"}
    /\ _advisory_delay > 0
    /\ _result = EmptyDict

\* C8: a reply with an error object makes the operation fail with that code
\* and that message, returns no data, and nothing of the reply becomes the
\* session's result, random data, signature or advisory delay.
C8_ErrorObjectSurfaces ==
    [][(SendStep /\ ErrorReply(received')) =>
          LET err == Member(received'.body, "error")
          IN  /\ outcome' = "RemoteError"
              /\ error' = [code |-> Member(err, "code"),
                           message |-> Member(err, "message")]
              /\ ret' = NoRet
              /\ _result' = EmptyDict
              /\ _random' = EmptyList
              /\ _signature' = ""
              /\ _advisory_delay' = _advisory_delay]_vars

\* An error reply that also carried a result was turned into the error
C8_Witness ==
    /\ httpCalls = 1
    /\ ErrorReply(received)
    /\ HasMember(received.body, RESULT)
    /\ outcome = "RemoteError"
    /\ error = [code |-> 402, message |-> "quota exceeded"]

----------------------------------------------------------------------------
(* Signature verification *)

SignedOps ==
    { "generate_signed_integers", "generate_signed_decimal_fractions",
      "generate_signed_gaussians", "generate_signed_strings",
      "generate_signed_uuids", "generate_signed_blobs" }

\* C4 (as claimed): verify_signature on a client holding no signature (a new
\* client included) returns None, does not raise and sends nothing.
C4_VerifyWithoutSignatureReturnsNone ==
    [][(VerifyStep /\ ("_signature" \notin attrs \/ _signature = "")) =>
          /\ outcome' = "returned"
          /\ ret' = RetNone
          /\ httpCalls' = 0]_vars

\* C9: after a signed generation whose reply had random and signature, the
\* request of the next verify_signature carries that random object, member
\* for member in the order received, and that signature.
C9_SignedDataRoundTrip ==
    [][(/\ VerifyStep
        /\ lastOp \in SignedOps
        /\ outcome = "returned"
        /\ HasMember(ResultText(received.body), RANDOM)
        /\ HasMember(ResultText(received.body), SIGNATURE)) =>
          /\ httpCalls' = 1
          /\ wire'.method = VERIFY_SIGNATURE_METHOD
          /\ wire'.params.type = "dict"
          /\ DOMAIN wire'.params.dict = {RANDOM, SIGNATURE}
          /\ wire'.params.dict[RANDOM] =
                Member(ResultText(received.body), RANDOM)
          /\ wire'.params.dict[SIGNATURE] =
                Member(ResultText(received.body), SIGNATURE)]_vars

\* A verification request carrying a random object of two members
C9_Witness ==
    /\ lastOp = "verify_signature"
    /\ httpCalls = 1
    /\ wire.params.dict[SIGNATURE] = "sigA"
    /\ wire.params.dict[RANDOM] = RandomB

\* C10: when the verification request succeeds, verify_signature returns
\* result.authenticity if the result has it, true or false, and fails with
\* the verification-unavailable error if it has not.
C10_AuthenticityOrUnavailable ==
    (/\ lastOp = "verify_signature"
     /\ httpCalls = 1
     /\ ~FailedReply(received)) =>
        IF HasMember(ResultText(received.body), AUTHENTICITY)
        THEN /\ outcome = "returned"
             /\ ret = RetFlag(Member(ResultText(received.body), AUTHENTICITY))
        ELSE /\ outcome = "VerificationUnavailable"
             /\ ret = NoRet

\* verify_signature returned the flag false
C10_Witness ==
    /\ lastOp = "verify_signature"
    /\ httpCalls = 1
    /\ outcome = "returned"
    /\ ret = RetFlag(FALSE)

----------------------------------------------------------------------------
(* Method names *)

\* The method names the service defines
Whitelist ==
    { "generateIntegers", "generateDecimalFractions", "generateGaussians",
      "generateStrings", "generateUUIDs", "generateBlobs", "getUsage",
      "generateSignedIntegers", "generateSignedDecimalFractions",
      "generateSignedGaussians", "generateSignedStrings",
      "generateSignedUUIDs", "generateSignedBlobs", "verifySignature" }

\* The remote method each operation of the client stands for
RemoteMethod(op) ==
    CASE op = "generate_integers" -> "generateIntegers"
      [] op = "generate_decimal_fractions" -> "generateDecimalFractions"
      [] op = "generate_gaussians" -> "generateGaussians"
      [] op = "generate_strings" -> "generateStrings"
      [] op = "generate_uuids" -> "generateUUIDs"
      [] op = "generate_blobs" -> "generateBlobs"
      [] op = "get_usage" -> "getUsage"
      [] op = "generate_signed_integers" -> "generateSignedIntegers"
      [] op = "generate_signed_decimal_fractions" ->
            "generateSignedDecimalFractions"
      [] op = "generate_signed_gaussians" -> "generateSignedGaussians"
      [] op = "generate_signed_strings" -> "generateSignedStrings"
      [] op = "generate_signed_uuids" -> "generateSignedUUIDs"
      [] op = "generate_signed_blobs" -> "generateSignedBlobs"
      [] op = "verify_signature" -> "verifySignature"

\* C5 (as claimed): compose_api_call accepts exactly the fourteen names of
\* the whitelist: each of them is accepted, every other name is rejected.
C5_AcceptsExactlyTheWhitelist ==
    [][\A name \in CallerNames, args \in CallerArgs,
          kwargs \in CallerKwargs, id \in Uuids :
            Compose(name, args, kwargs, id) =>
                (outcome' = "returned" <=> name \in Whitelist)]_vars

\* C6 (as claimed): every operation sends the remote method it stands for,
\* each signed variant its generateSigned... name.
C6_EachOperationSendsItsMethod ==
    httpCalls = 1 => wire.method = RemoteMethod(lastOp)

\* C7: composing with a name outside the whitelist fails with the
\* invalid-method error, sends nothing and leaves the session as it was.
C7_UnlistedNameRejected ==
    [][\A name \in CallerNames \ Whitelist, args \in CallerArgs,
          kwargs \in CallerKwargs, id \in Uuids :
            Compose(name, args, kwargs, id) =>
                /\ outcome' = "InvalidMethod"
                /\ ret' = NoRet
                /\ httpCalls' = 0
                /\ received' = NoReply
                /\ UNCHANGED <<now, session>>]_vars

\* A name was rejected on a client that had already made a request
C7_Witness ==
    /\ lastOp = "compose_api_call"
    /\ outcome = "InvalidMethod"
    /\ httpCalls = 0
    /\ _time_of_last_request > 0
    /\ "_signature" \in attrs

----------------------------------------------------------------------------
(* The parameters of a composed request *)

\* params is the named arguments, with the positional ones under "__args"
\* when there are any, or the positional arguments alone as a sequence
ParamsAsDocumented(params, args, kwargs) ==
    IF DOMAIN kwargs # {}
    THEN /\ params.type = "dict"
         /\ DOMAIN params.dict =
               DOMAIN kwargs \cup (IF Len(args) > 0 THEN {"__args"} ELSE {})
         /\ \A k \in DOMAIN kwargs : params.dict[k] = kwargs[k]
         /\ Len(args) > 0 => params.dict["__args"] = args
    ELSE /\ params.type = "tuple"
         /\ params.tuple = args

\* C11: for every name and every combination of positional and named
\* arguments a composer accepts, the params of the composed request is the
\* named arguments with the positional ones under "__args", without that
\* key when there are none, and the positional arguments as a sequence when
\* no named argument is given.
C11_ParamsFromArguments ==
    [][\A name \in CallerNames, args \in CallerArgs,
          kwargs \in CallerKwargs, id \in Uuids :
            /\ (Compose(name, args, kwargs, id) /\ outcome' = "returned") =>
                  /\ ret'.request.method = name
                  /\ ParamsAsDocumented(ret'.request.params, args, kwargs)
            /\ CreateRequest(name, args, kwargs, id) =>
                  /\ outcome' = "returned"
                  /\ ParamsAsDocumented(ret'.request.params, args, kwargs)
      ]_vars

\* A request composed by compose_api_call from both kinds of arguments
C11_Witness ==
    /\ lastOp = "compose_api_call"
    /\ outcome = "returned"
    /\ ret.request.params.type = "dict"
    /\ DOMAIN ret.request.params.dict = {"n", "__args"}
    /\ ret.request.params.dict["__args"] = <<5, 6>>

----------------------------------------------------------------------------
(* The two composers compared *)

\* Two requests that differ at most in their ids
SameRequest(a, b) ==
    /\ a.method = b.method
    /\ a.jsonrpc = b.jsonrpc
    /\ a.params = b.params

\* C20 (as claimed): called with the same name and arguments the two
\* composers have the same outcome: both reject, or both return requests
\* with the same method, version "2.0" and params.
C20_ComposersEquivalent ==
    [][\A name \in CallerNames, args \in CallerArgs,
          kwargs \in CallerKwargs, id \in Uuids :
            /\ Compose(name, args, kwargs, id) =>
                  IF create_request_raises(name)
                  THEN outcome' = "InvalidMethod"
                  ELSE /\ outcome' = "returned"
                       /\ SameRequest(ret'.request,
                             create_request_json(name, args, kwargs, id))
            /\ CreateRequest(name, args, kwargs, id) =>
                  IF compose_raises(name)
                  THEN outcome' = "InvalidMethod"
                  ELSE /\ outcome' = "returned"
                       /\ SameRequest(ret'.request,
                             compose_api_call(name, args, kwargs, id))
      ]_vars

\* C20 (amended): create_request_json accepts every name; for every name
\* compose_api_call accepts and every combination of arguments the two
\* composers return requests with the same method, version "2.0" and params.
C20_ComposersAgreeWhereBothAccept ==
    [][\A name \in CallerNames, args \in CallerArgs,
          kwargs \in CallerKwargs, id \in Uuids :
            /\ (Compose(name, args, kwargs, id) /\ outcome' = "returned") =>
                  /\ ret'.request.jsonrpc = "2.0"
                  /\ SameRequest(ret'.request,
                        create_request_json(name, args, kwargs, id))
            /\ CreateRequest(name, args, kwargs, id) =>
                  /\ outcome' = "returned"
                  /\ ret'.request.method = name
                  /\ ret'.request.jsonrpc = "2.0"
                  /\ ~compose_raises(name) =>
                        SameRequest(ret'.request,
                           compose_api_call(name, args, kwargs, id))
      ]_vars

\* create_request_json composed a request, from both kinds of arguments, for
\* a name compose_api_call accepts too
C20_Witness ==
    /\ lastOp = "create_request_json"
    /\ outcome = "returned"
    /\ ~compose_raises(ret.request.method)
    /\ ret.request.params.type = "dict"
    /\ "__args" \in DOMAIN ret.request.params.dict

----------------------------------------------------------------------------
(* What the generation operations return *)

GenerationOps ==
    { "generate_integers", "generate_decimal_fractions",
      "generate_gaussians", "generate_strings", "generate_uuids",
      "generate_blobs" } \cup SignedOps

\* The random member of the result of a reply, << >> when it has none
RandomText(body) ==
    IF HasMember(ResultText(body), RANDOM)
    THEN Member(ResultText(body), RANDOM)
    ELSE << >>

\* C12: a generation operation whose request succeeded returns exactly the
\* data array of the random object of the reply to that request, and raises,
\* returning nothing, when that reply has no random data.
C12_ReturnsDataOfItsResponse ==
    (lastOp \in GenerationOps /\ httpCalls = 1 /\ ~FailedReply(received)) =>
        IF HasMember(RandomText(received.body), "data")
        THEN /\ outcome = "returned"
             /\ ret = RetData(Member(RandomText(received.body), "data"))
        ELSE /\ outcome \in {"TypeError", "KeyError"}
             /\ ret = NoRet

\* A generation operation returned the data of its reply on a client that a
\* reply to an earlier request had told to wait
C12_Witness ==
    /\ lastOp \in GenerationOps
    /\ outcome = "returned"
    /\ sleptFor > 0
    /\ received.ok
    /\ RandomText(received.body) = RandomB
    /\ ret = RetData(<<3>>)

----------------------------------------------------------------------------
(* Errors are neither swallowed nor retried *)

\* C13: an operation calls http_request at most once; when that request ends
\* in a transport failure or in a reply with an error object, the operation
\* ends with that error and returns nothing.
C13_OneRequestErrorsSurface ==
    /\ httpCalls \in {0, 1}
    /\ (httpCalls = 1 /\ ~received.ok) =>
          /\ outcome = "TransportError"
          /\ ret = NoRet
    /\ (httpCalls = 1 /\ ErrorReply(received)) =>
          /\ outcome = "RemoteError"
          /\ error.code = Member(Member(received.body, "error"), "code")
          /\ ret = NoRet

\* The transport failed under a usage query made on a throttled client
C13_Witness ==
    /\ lastOp = "get_usage"
    /\ httpCalls = 1
    /\ ~received.ok
    /\ outcome = "TransportError"
    /\ _advisory_delay > 0

----------------------------------------------------------------------------
(* The time of the last request *)

\* C14 (as claimed): after every request handed to http_request, whatever
\* its outcome, the time of the last request is the time of that attempt.
C14_TimestampUpdatedOnEveryAttempt ==
    [][SendStep => _time_of_last_request' = now']_vars

\* The advisoryDelay member of the result of a reply
HasDelay(reply) ==
    ~FailedReply(reply) /\ HasMember(ResultText(reply.body), ADVISORY_DELAY)

\* C15: after a successful reply whose result has advisoryDelay = m
\* milliseconds the pending delay is m / 1000 seconds (m / 500 half seconds)
\* and the time of the last request is the time of that request; a request
\* made while the pending delay is 0 is not delayed.
C15_DelayTakenFromReply ==
    [][/\ (SendStep /\ HasDelay(received')) =>
            /\ _advisory_delay' * 500 =
                  Member(ResultText(received'.body), ADVISORY_DELAY)
            /\ _time_of_last_request' = now'
       /\ (SendStep /\ _advisory_delay = 0) =>
            /\ sleptFor' = 0
            /\ now' = now]_vars

\* A reply with advisoryDelay 0 cleared the delay a request had waited for
C15_Witness ==
    /\ httpCalls = 1
    /\ HasDelay(received)
    /\ Member(ResultText(received.body), ADVISORY_DELAY) = 0
    /\ _advisory_delay = 0
    /\ sleptFor > 0
    /\ _time_of_last_request = now

\* C16: the first request of a client (the time of the last request is
\* still 0) records the current time as the time of the last request and is
\* handed to http_request without sleeping, whichever operation makes it.
C16_FirstRequestNotDelayed ==
    [][(SendStep /\ _time_of_last_request = 0) =>
          /\ sleptFor' = 0
          /\ now' = now
          /\ _time_of_last_request' = now]_vars

\* The first request of a client, made some time after construction, failed
\* in the transport: the time recorded is the time of the attempt
C16_Witness ==
    /\ httpCalls = 1
    /\ ~received.ok
    /\ sleptFor = 0
    /\ now > 1
    /\ _time_of_last_request = now
    /\ _advisory_delay = 0

----------------------------------------------------------------------------
(* The pending advisory delay *)

\* C19: the pending advisory delay changes only in a request whose reply is
\* successful and has an advisoryDelay member; a reply without it, a reply
\* with an error object and a transport failure leave it as it was.
C19_AdvisoryDelaySticky ==
    [][(_advisory_delay' # _advisory_delay) =>
          (SendStep /\ HasDelay(received'))]_vars

\* A successful reply without advisoryDelay arrived while a delay was pending
C19_Witness ==
    /\ httpCalls = 1
    /\ outcome = "returned"
    /\ ~FailedReply(received)
    /\ ~HasMember(ResultText(received.body), ADVISORY_DELAY)
    /\ _advisory_delay > 0

----------------------------------------------------------------------------
(* What verify_signature submits *)

\* C18: after every request the stored signature and random data are those
\* of the reply to that request, empty when it failed or had none; a
\* verify_signature on an empty signature returns None and sends nothing;
\* and the signature and random data a verify_signature submits are those
\* of the reply to the request just before it.
C18_VerifiesOnlyThePrecedingReply ==
    [][/\ SendStep =>
            /\ _signature' =
                  IF /\ ~FailedReply(received')
                     /\ HasMember(ResultText(received'.body), SIGNATURE)
                  THEN Member(ResultText(received'.body), SIGNATURE)
                  ELSE ""
            /\ dumps_value(_random') =
                  IF FailedReply(received') THEN << >>
                  ELSE RandomText(received'.body)
       /\ (VerifyStep /\ "_signature" \in attrs /\ _signature = "") =>
            /\ outcome' = "returned"
            /\ ret' = RetNone
            /\ httpCalls' = 0
            /\ UNCHANGED <<now, session>>
       /\ (VerifyStep /\ httpCalls' = 1) =>
            /\ httpCalls = 1
            /\ ~FailedReply(received)
            /\ HasMember(ResultText(received.body), SIGNATURE)
            /\ wire'.params.dict[SIGNATURE] =
                  Member(ResultText(received.body), SIGNATURE)
            /\ wire'.params.dict[RANDOM] = RandomText(received.body)]_vars

\* verify_signature returned None, sending nothing, on a client whose
\* earlier requests had succeeded
C18_Witness ==
    /\ lastOp = "verify_signature"
    /\ outcome = "returned"
    /\ ret = RetNone
    /\ httpCalls = 0
    /\ _signature = ""
    /\ _advisory_delay > 0

----------------------------------------------------------------------------
(* The params of the requests of the operations *)

\* What the caller gave for an optional parameter, or the documented default
Supplied(given, name, documented) ==
    IF name \in DOMAIN given THEN given[name] ELSE documented

IntegerParams(n, given) ==
    [apiKey |-> api_key, n |-> n, min |-> 0, max |-> 10,
     replacement |-> Supplied(given, "replacement", TRUE),
     base |-> Supplied(given, "base", 10)]

DecimalParams(n, given) ==
    [apiKey |-> api_key, n |-> n, decimalPlaces |-> 2,
     replacement |-> Supplied(given, "replacement", TRUE)]

GaussianParams(n) ==
    [apiKey |-> api_key, n |-> n, mean |-> 0, standardDeviation |-> 1,
     significantDigits |-> 3]

StringParams(n, given) ==
    [apiKey |-> api_key, n |-> n, length |-> 4, characters |-> "abc",
     replacement |-> Supplied(given, "replacement", TRUE)]

UuidParams(n) == [apiKey |-> api_key, n |-> n]

BlobParams(n, given) ==
    [apiKey |-> api_key, n |-> n, size |-> 8,
     format |-> Supplied(given, "format", "base64")]

\* The request sent in this step has the named parameters d
Sends(d) == wire'.params = [type |-> "dict", dict |-> d, tuple |-> << >>]

\* Each generation operation and the usage query send the API key and their
\* own parameters, the optional ones with the caller's value or the default
KeyAndParametersSent ==
    /\ \A n \in Ns, given \in GivenToIntegers :
          (\/ generate_integers_call(n, given, received', wire'.id)
           \/ generate_signed_integers_call(n, given, received', wire'.id))
             => Sends(IntegerParams(n, given))
    /\ \A n \in Ns, given \in GivenReplacement :
          /\ (\/ generate_decimal_fractions_call(n, given, received',
                                                 wire'.id)
              \/ generate_signed_decimal_fractions_call(n, given, received',
                                                        wire'.id))
                => Sends(DecimalParams(n, given))
          /\ (\/ generate_strings_call(n, given, received', wire'.id)
              \/ generate_signed_strings_call(n, given, received', wire'.id))
                => Sends(StringParams(n, given))
    /\ \A n \in Ns, given \in GivenFormat :
          (\/ generate_blobs_call(n, given, received', wire'.id)
           \/ generate_signed_blobs_call(n, given, received', wire'.id))
             => Sends(BlobParams(n, given))
    /\ \A n \in Ns :
          /\ (\/ generate_gaussians(n, 0, 1, 3, received', wire'.id)
              \/ generate_signed_gaussians(n, 0, 1, 3, received', wire'.id))
                => Sends(GaussianParams(n))
          /\ (\/ generate_uuids(n, received', wire'.id)
              \/ generate_signed_uuids(n, received', wire'.id))
                => Sends(UuidParams(n))
    /\ get_usage(received', wire'.id) => Sends([apiKey |-> api_key])

\* The request sent in this step carries the API key of the client
KeySent ==
    /\ wire'.params.type = "dict"
    /\ API_KEY \in DOMAIN wire'.params.dict
    /\ wire'.params.dict[API_KEY] = api_key

\* C17 (as claimed): the request of every operation, signature verification
\* included, carries the API key under apiKey and the parameters of the
\* operation, with replacement=true, base=10 and format=base64 where the
\* caller gave none.
C17_EveryRequestCarriesTheKey ==
    [][/\ SendStep => KeySent
       /\ KeyAndParametersSent]_vars

\* C17 (amended): the request of every generation operation and of the
\* usage query carries the API key and the parameters of the operation, with
\* those defaults; the request of verify_signature carries the random data
\* and the signature and no API key.
C17_KeyExceptInVerification ==
    [][/\ (SendStep /\ lastOp' # "verify_signature") => KeySent
       /\ (SendStep /\ lastOp' = "verify_signature") =>
             /\ wire'.params.type = "dict"
             /\ DOMAIN wire'.params.dict = {RANDOM, SIGNATURE}
       /\ KeyAndParametersSent]_vars

\* generate_signed_integers called with replacement given and base left out
C17_Witness ==
    /\ lastOp = "generate_signed_integers"
    /\ httpCalls = 1
    /\ wire.params.dict =
          [apiKey |-> "key", n |-> 2, min |-> 0, max |-> 10,
           replacement |-> FALSE, base |-> 10]

====
